---- MODULE Spec2Model ----
(***************************************************************************)
(* ebird2spatialite: main() of src/src/main.rs as a state machine.         *)
(*                                                                         *)
(* One run of the program: the command line is fixed in Init, main() then  *)
(* opens the archive, compiles the filter configuration option by option,  *)
(* opens and initializes the destination database, opens one transaction,  *)
(* pulls the rows of the archive through take / filter_map / filter /      *)
(* for_each, commits and returns.                                          *)
(*                                                                         *)
(* Abstractions (all computed, none the identity):                         *)
(*  - a date text is <<year, month, day>>; ParseDate validates month and   *)
(*    day and yields an ordinal ordered like chrono::NaiveDate;            *)
(*  - a number text is a tuple of characters; ParseNumber folds digits;    *)
(*  - a pattern is a literal; Regex::new rejects an unclosed group and     *)
(*    is_match searches the literal anywhere in the haystack;              *)
(*  - a WKT text is its validity plus the list of geometries it encodes;   *)
(*  - points lie on one meridian, where the haversine distance is the      *)
(*    mean earth radius times the latitude difference.                     *)
(***************************************************************************)
EXTENDS Integers, Sequences, FiniteSets, TLC

\* ------------------------------------------------------------------ bounds

\* Longest archive (number of rows the reader can yield).
MaxRows == 2

\* Largest value given to --limit.
MaxLimit == 1

\* --------------------------------------------------------------- constants

\* usize::max_value(), the limit when --limit is absent. It stands above
\* every archive length; the value is TLC's largest integer.
UsizeMax == 2147483647

\* The default buffer, in metres.
DefaultBuffer == 1000

\* Haversine distance, in metres, between two points one degree of latitude
\* apart on the same meridian (mean earth radius 6371008.8 m * pi / 180).
MetresPerDegree == 111195

\* ----------------------------------------------------------------- options

None == <<>>
Some(x) == <<x>>
IsSome(o) == Len(o) = 1
Unwrap(o) == o[1]

\* ------------------------------------------------------------- conversions

DaysInMonth(y, m) ==
    IF m \in {4, 6, 9, 11} THEN 30
    ELSE IF m = 2 THEN (IF (y % 4 = 0 /\ y % 100 # 0) \/ y % 400 = 0 THEN 29 ELSE 28)
    ELSE 31

\* NaiveDate::parse_from_str(text, "%Y-%m-%d"): Ok(date) or Err.
ParseDate(text) ==
    IF /\ text[2] \in 1..12
       /\ text[3] \in 1..DaysInMonth(text[1], text[2])
    THEN [ok |-> TRUE, date |-> text[1] * 10000 + text[2] * 100 + text[3]]
    ELSE [ok |-> FALSE, date |-> 0]

DigitChars == <<"0", "1", "2", "3", "4", "5", "6", "7", "8", "9">>

IsDigit(c) == \E i \in 1..10 : DigitChars[i] = c

DigitValue(c) == (CHOOSE i \in 1..10 : DigitChars[i] = c) - 1

RECURSIVE FoldDigits(_, _)
FoldDigits(text, acc) ==
    IF text = <<>> THEN acc
    ELSE FoldDigits(Tail(text), acc * 10 + DigitValue(Head(text)))

\* text.parse::<usize>() and text.parse::<f64>() on texts of digits.
ParseNumber(text) ==
    IF Len(text) > 0 /\ \A i \in 1..Len(text) : IsDigit(text[i])
    THEN [ok |-> TRUE, value |-> FoldDigits(text, 0)]
    ELSE [ok |-> FALSE, value |-> 0]

\* Regex::new(text)
RegexNew(text) ==
    IF \E i \in 1..Len(text) : text[i] = "("
    THEN [ok |-> FALSE, regex |-> <<>>]
    ELSE [ok |-> TRUE, regex |-> text]

\* Regex::is_match: the pattern matches somewhere in the haystack.
IsMatch(regex, haystack) ==
    \E i \in 1..(Len(haystack) - Len(regex) + 1) :
        SubSeq(haystack, i, i + Len(regex) - 1) = regex

Abs(n) == IF n < 0 THEN 0 - n ELSE n

\* near.haversine_distance(&other), for two points of one meridian.
HaversineDistance(p, q) == Abs(p.y - q.y) * MetresPerDegree

\* ------------------------------------------------------------------ inputs

Date1 == <<2020, 1, 1>>
Date2 == <<2020, 2, 1>>
BadDate == <<2020, 13, 1>>

DateTexts == {Date1, Date2, BadDate}

Origin == [x |-> 0, y |-> 0]

PointItem(p) == [type |-> "POINT", coords |-> <<p>>]
EmptyPointItem == [type |-> "POINT", coords |-> <<>>]
LineItem == [type |-> "LINESTRING", coords |-> <<Origin, [x |-> 0, y |-> 1]>>]
PolygonItem == [type |-> "POLYGON", coords |-> <<Origin, [x |-> 0, y |-> 1], Origin>>]

WktTexts ==
    { [valid |-> FALSE, items |-> <<>>],
      [valid |-> TRUE, items |-> <<>>],
      [valid |-> TRUE, items |-> <<PointItem(Origin)>>],
      [valid |-> TRUE, items |-> <<EmptyPointItem>>],
      [valid |-> TRUE, items |-> <<LineItem>>],
      [valid |-> TRUE, items |-> <<PolygonItem>>],
      [valid |-> TRUE, items |-> <<PointItem(Origin), PointItem(Origin)>>] }

BufferTexts == { <<"x">>, <<"1", "1", "1", "1", "9", "5">> }

PatternTexts == { <<"(">>, <<"a">> }

LimitTexts == { <<"x">> } \cup { <<DigitChars[n + 1]>> : n \in 0..MaxLimit }

OptionOf(S) == {None} \cup {Some(x) : x \in S}

Names == { <<"b", "a">>, <<"b">> }

EBirdRecord ==
    [obs_date : DateTexts, latitude : {0, 1}, longitude : {0},
     common_name : Names, scientific_name : Names]

NoRecord ==
    [obs_date |-> BadDate, latitude |-> 0, longitude |-> 0,
     common_name |-> <<>>, scientific_name |-> <<>>]

\* What reader.deserialize() yields for one row: Ok(record), or Err for a
\* row that does not decode, or Err for an I/O or decompression error.
RowResults ==
    { [kind |-> "ok", rec |-> r] : r \in EBirdRecord }
    \cup { [kind |-> k, rec |-> NoRecord] : k \in {"decode_err", "io_err"} }

NoLast == [item |-> [kind |-> "none", rec |-> NoRecord],
           attempted |-> FALSE, insert_ok |-> FALSE]

VARIABLES
    args,                   \* matches: the values of the command line
    pc,                     \* position in main()
    error,                  \* which error main() ended with
    exit,                   \* process outcome
    before_date, since_date, near, buffer,
    common_name_regex, scientific_name_regex, limit,
    store,                  \* the ebird table of ebird.sqlite
    tx,                     \* the transaction
    tx_opens,               \* transactions opened so far
    commit_attempts,        \* calls of tx.commit()
    tx_rows,                \* rows inserted in the open transaction
    committed,              \* rows of the table after the commit
    taken,                  \* rows counted by take(limit)
    decoded,                \* rows filter_map passed on
    dropped,                \* rows that failed to decode
    attempts,               \* calls of insert_record
    failed,                 \* calls of insert_record that returned Err
    last,                   \* the last row pulled and what became of it
    reader_eof              \* the reader returned None

config == <<before_date, since_date, near, buffer,
            common_name_regex, scientific_name_regex, limit>>
db == <<store, tx, tx_opens, commit_attempts, tx_rows, committed>>
stream == <<taken, decoded, dropped, attempts, failed, last, reader_eof>>
vars == <<args, pc, error, exit, config, db, stream>>

\* ------------------------------------------------------------------- state

Init ==
    /\ args \in [before : OptionOf({Date1, Date2, BadDate}),
                 since : OptionOf({Date1, Date2, BadDate}),
                 near : OptionOf(WktTexts),
                 buffer : OptionOf(BufferTexts),
                 common_name_regex : OptionOf(PatternTexts),
                 scientific_name_regex : OptionOf(PatternTexts),
                 limit : OptionOf(LimitTexts)]
    /\ pc = "open_file"
    /\ error = "none"
    /\ exit = "running"
    /\ before_date = None
    /\ since_date = None
    /\ near = None
    /\ buffer = 0
    /\ common_name_regex = None
    /\ scientific_name_regex = None
    /\ limit = 0
    /\ store = "untouched"
    /\ tx = "none"
    /\ tx_opens = 0
    /\ commit_attempts = 0
    /\ tx_rows = 0
    /\ committed = 0
    /\ taken = 0
    /\ decoded = 0
    /\ dropped = 0
    /\ attempts = 0
    /\ failed = 0
    /\ last = NoLast
    /\ reader_eof = FALSE

\* ------------------------------------------------- the statements of main()

\* A variant of NextStep that opens and initializes the database, and opens
\* the transaction, right after the archive is opened.
NextStep_database_first(p) ==
    CASE p = "open_file" -> "db_open"
      [] p = "db_open" -> "init_db"
      [] p = "init_db" -> "tx"
      [] p = "tx" -> "before_date"
      [] p = "before_date" -> "since_date"
      [] p = "since_date" -> "near_location"
      [] p = "near_location" -> "buffer"
      [] p = "buffer" -> "common_name_regex"
      [] p = "common_name_regex" -> "scientific_name_regex"
      [] p = "scientific_name_regex" -> "limit"
      [] p = "limit" -> "iter"

\* The statement that follows statement p when p does not return or panic.
NextStep(p) ==
    CASE p = "open_file" -> "before_date"
      [] p = "before_date" -> "since_date"
      [] p = "since_date" -> "near_location"
      [] p = "near_location" -> "buffer"
      [] p = "buffer" -> "common_name_regex"
      [] p = "common_name_regex" -> "scientific_name_regex"
      [] p = "scientific_name_regex" -> "limit"
      [] p = "limit" -> "db_open"
      [] p = "db_open" -> "init_db"
      [] p = "init_db" -> "tx"
      [] p = "tx" -> "iter"

\* return Err(io::Error::new(..)) and the `?` of File::open: main() returns
\* an error and the process exits with a non-zero status.
ReturnErr(err) ==
    /\ pc' = "exited"
    /\ exit' = "failure"
    /\ error' = err

\* .unwrap() on an Err: the thread panics and the process exits.
Panic(err) ==
    /\ pc' = "exited"
    /\ exit' = "panic"
    /\ error' = err

Continue ==
    /\ pc' = NextStep(pc)
    /\ UNCHANGED <<error, exit>>

\* let ebird_data = File::open(path)?;
OpenFile ==
    /\ pc = "open_file"
    /\ \E ok \in BOOLEAN :
        IF ok THEN Continue ELSE ReturnErr("open")
    /\ UNCHANGED <<args, config, db, stream>>

ParseBeforeDate ==
    /\ pc = "before_date"
    /\ IF IsSome(args.before)
       THEN LET r == ParseDate(Unwrap(args.before)) IN
            IF r.ok
            THEN before_date' = Some(r.date) /\ Continue
            ELSE ReturnErr("before_date") /\ UNCHANGED before_date
       ELSE before_date' = None /\ Continue
    /\ UNCHANGED <<args, since_date, near, buffer, common_name_regex,
                   scientific_name_regex, limit, db, stream>>

\* if before_date > date { return Err("Before date is after since date") }
BoundsRejected(before, date) == before > date

ParseSinceDate ==
    /\ pc = "since_date"
    /\ IF IsSome(args.since)
       THEN LET r == ParseDate(Unwrap(args.since)) IN
            IF r.ok
            THEN IF IsSome(before_date) /\ BoundsRejected(Unwrap(before_date), r.date)
                 THEN ReturnErr("bounds") /\ UNCHANGED since_date
                 ELSE since_date' = Some(r.date) /\ Continue
            ELSE ReturnErr("since_date") /\ UNCHANGED since_date
       ELSE since_date' = None /\ Continue
    /\ UNCHANGED <<args, before_date, near, buffer, common_name_regex,
                   scientific_name_regex, limit, db, stream>>

\* wkt::conversion::try_into_geometry: a point without coordinates does not
\* convert.
TryIntoGeometry(item) ==
    IF item.type = "POINT" /\ item.coords = <<>>
    THEN [ok |-> FALSE, geometry |-> item]
    ELSE [ok |-> TRUE, geometry |-> item]

\* Point::try_from(as_geometry).ok()
PointTryFromOk(geometry) ==
    IF geometry.type = "POINT" THEN Some(geometry.coords[1]) ELSE None

ParseNearLocation ==
    /\ pc = "near_location"
    /\ IF IsSome(args.near)
       THEN LET wkt == Unwrap(args.near) IN
            IF wkt.valid
            THEN IF Len(wkt.items) = 1
                 THEN LET g == TryIntoGeometry(wkt.items[1]) IN
                      IF g.ok
                      THEN near' = PointTryFromOk(g.geometry) /\ Continue
                      ELSE ReturnErr("near_geometry") /\ UNCHANGED near
                 ELSE ReturnErr("near_multiple") /\ UNCHANGED near
            ELSE ReturnErr("near_wkt") /\ UNCHANGED near
       ELSE near' = None /\ Continue
    /\ UNCHANGED <<args, before_date, since_date, buffer, common_name_regex,
                   scientific_name_regex, limit, db, stream>>

ParseBuffer ==
    /\ pc = "buffer"
    /\ IF IsSome(args.buffer)
       THEN LET r == ParseNumber(Unwrap(args.buffer)) IN
            IF r.ok
            THEN buffer' = r.value /\ Continue
            ELSE ReturnErr("buffer") /\ UNCHANGED buffer
       ELSE buffer' = DefaultBuffer /\ Continue
    /\ UNCHANGED <<args, before_date, since_date, near, common_name_regex,
                   scientific_name_regex, limit, db, stream>>

ParseCommonNameRegex ==
    /\ pc = "common_name_regex"
    /\ IF IsSome(args.common_name_regex)
       THEN LET r == RegexNew(Unwrap(args.common_name_regex)) IN
            IF r.ok
            THEN common_name_regex' = Some(r.regex) /\ Continue
            ELSE ReturnErr("common_name_regex") /\ UNCHANGED common_name_regex
       ELSE common_name_regex' = None /\ Continue
    /\ UNCHANGED <<args, before_date, since_date, near, buffer,
                   scientific_name_regex, limit, db, stream>>

ParseScientificNameRegex ==
    /\ pc = "scientific_name_regex"
    /\ IF IsSome(args.scientific_name_regex)
       THEN LET r == RegexNew(Unwrap(args.scientific_name_regex)) IN
            IF r.ok
            THEN scientific_name_regex' = Some(r.regex) /\ Continue
            ELSE ReturnErr("scientific_name_regex") /\ UNCHANGED scientific_name_regex
       ELSE scientific_name_regex' = None /\ Continue
    /\ UNCHANGED <<args, before_date, since_date, near, buffer,
                   common_name_regex, limit, db, stream>>

ParseLimit ==
    /\ pc = "limit"
    /\ IF IsSome(args.limit)
       THEN LET r == ParseNumber(Unwrap(args.limit)) IN
            IF r.ok
            THEN limit' = r.value /\ Continue
            ELSE ReturnErr("limit") /\ UNCHANGED limit
       ELSE limit' = UsizeMax /\ Continue
    /\ UNCHANGED <<args, before_date, since_date, near, buffer,
                   common_name_regex, scientific_name_regex, db, stream>>

\* let mut conn = Connection::open("ebird.sqlite").unwrap();
OpenConnection ==
    /\ pc = "db_open"
    /\ \E ok \in BOOLEAN :
        IF ok THEN Continue ELSE Panic("db_open")
    /\ UNCHANGED <<args, config, db, stream>>

\* The statements of initialize_database, each ending in `?`:
\* 1 LoadExtensionGuard, 2 load_extension, 3 DROP TABLE IF EXISTS,
\* 4 InitSpatialMetaData, 5 CREATE TABLE, 6 AddGeometryColumn.
InitSteps == 1..6

\* The table after initialize_database failed at statement fail_at, or ran
\* to its end (fail_at = 0).
StoreAfterInit(fail_at) ==
    IF fail_at = 0 THEN "ready"
    ELSE IF fail_at <= 3 THEN store
    ELSE IF fail_at <= 5 THEN "dropped"
    ELSE "created"

\* A variant of UnwrapInit that ignores the result of initialize_database.
UnwrapInit_ignored(fail_at) ==
    Continue

\* initialize_database(&conn).unwrap();
UnwrapInit(fail_at) ==
    IF fail_at = 0 THEN Continue ELSE Panic("init_db")

InitializeDatabase ==
    /\ pc = "init_db"
    /\ \E fail_at \in {0} \cup InitSteps :
        /\ store' = StoreAfterInit(fail_at)
        /\ UnwrapInit(fail_at)
    /\ UNCHANGED <<args, config, tx, tx_opens, commit_attempts, tx_rows,
                   committed, stream>>

\* let tx = conn.transaction().unwrap();
OpenTransaction ==
    /\ pc = "tx"
    /\ \E ok \in BOOLEAN :
        IF ok
        THEN /\ tx' = "open"
             /\ tx_opens' = tx_opens + 1
             /\ Continue
        ELSE /\ Panic("tx")
             /\ UNCHANGED <<tx, tx_opens>>
    /\ UNCHANGED <<args, config, store, commit_attempts, tx_rows, committed, stream>>

\* ------------------------------------------------------------ the pipeline

\* A variant of TakeHasNext that counts the rows filter_map passed on, as
\* if take(limit) followed filter_map.
TakeHasNext_after_decode ==
    decoded < limit

\* Take::next: it pulls from the reader only while fewer than `limit` rows
\* were pulled. take(limit) is applied to reader.deserialize() itself.
TakeHasNext ==
    taken < limit

\* A variant of FilterMap that propagates the error.
FilterMap_propagate(item) ==
    IF item.kind = "ok" THEN "iter" ELSE "return_err"

\* filter_map: Ok(record) is passed on, any Err is dropped (`_ => None`) and
\* the iteration goes on.
FilterMap(item) ==
    "iter"

\* A variant of BeforeFilter with a strict comparison.
BeforeFilter_strict(record) ==
    IF IsSome(before_date)
    THEN LET r == ParseDate(record.obs_date) IN
         IF r.ok THEN r.date < Unwrap(before_date) ELSE TRUE
    ELSE TRUE

BeforeFilter(record) ==
    IF IsSome(before_date)
    THEN LET r == ParseDate(record.obs_date) IN
         IF r.ok THEN r.date <= Unwrap(before_date) ELSE TRUE
    ELSE TRUE

SinceFilter(record) ==
    IF IsSome(since_date)
    THEN LET r == ParseDate(record.obs_date) IN
         IF r.ok THEN r.date >= Unwrap(since_date) ELSE TRUE
    ELSE TRUE

NearFilter(record) ==
    IF IsSome(near)
    THEN LET other == [x |-> record.longitude, y |-> record.latitude] IN
         HaversineDistance(Unwrap(near), other) < buffer
    ELSE TRUE

CommonNameFilter(record) ==
    IF IsSome(common_name_regex)
    THEN IsMatch(Unwrap(common_name_regex), record.common_name)
    ELSE TRUE

ScientificNameFilter(record) ==
    IF IsSome(scientific_name_regex)
    THEN IsMatch(Unwrap(scientific_name_regex), record.scientific_name)
    ELSE TRUE

\* The chain of .filter() calls: a record reaches for_each when every
\* closure returns true.
Filters(record) ==
    /\ BeforeFilter(record)
    /\ SinceFilter(record)
    /\ NearFilter(record)
    /\ CommonNameFilter(record)
    /\ ScientificNameFilter(record)

\* A variant of ForEachInsert that unwraps the result of insert_record.
ForEachInsert_unwrap(ok) ==
    IF ok THEN "iter" ELSE "panic"

\* for_each: the result of insert_record is printed when it is an Err, and
\* the iteration goes on.
ForEachInsert(ok) ==
    "iter"

\* Where the pipeline goes after one row.
Proceed(target) ==
    IF target = "iter" THEN UNCHANGED <<pc, error, exit>>
    ELSE IF target = "return_err" THEN ReturnErr("row")
    ELSE Panic("insert")

\* One row pulled through take, filter_map, the filters and for_each.
PullRow ==
    /\ pc = "iter"
    /\ TakeHasNext
    /\ ~reader_eof
    /\ taken < MaxRows
    /\ \E item \in RowResults, insert_ok \in BOOLEAN :
        /\ taken' = taken + 1
        /\ IF item.kind = "ok"
           THEN /\ decoded' = decoded + 1
                /\ dropped' = dropped
                /\ IF Filters(item.rec)
                   THEN /\ attempts' = attempts + 1
                        /\ failed' = IF insert_ok THEN failed ELSE failed + 1
                        /\ tx_rows' = IF insert_ok THEN tx_rows + 1 ELSE tx_rows
                        /\ last' = [item |-> item, attempted |-> TRUE,
                                    insert_ok |-> insert_ok]
                        /\ Proceed(ForEachInsert(insert_ok))
                   ELSE /\ insert_ok
                        /\ last' = [item |-> item, attempted |-> FALSE,
                                    insert_ok |-> FALSE]
                        /\ Proceed("iter")
                        /\ UNCHANGED <<attempts, failed, tx_rows>>
           ELSE /\ insert_ok
                /\ decoded' = decoded
                /\ dropped' = IF item.kind = "decode_err" THEN dropped + 1 ELSE dropped
                /\ last' = [item |-> item, attempted |-> FALSE, insert_ok |-> FALSE]
                /\ Proceed(FilterMap(item))
                /\ UNCHANGED <<attempts, failed, tx_rows>>
    /\ UNCHANGED <<args, config, store, tx, tx_opens, commit_attempts,
                   committed, reader_eof>>

\* Take::next returns None without asking the reader: the limit is reached.
TakeExhausted ==
    /\ pc = "iter"
    /\ ~TakeHasNext
    /\ pc' = "commit"
    /\ UNCHANGED <<args, error, exit, config, db, stream>>

\* The reader returns None: the archive has no more rows.
ReaderExhausted ==
    /\ pc = "iter"
    /\ TakeHasNext
    /\ ~reader_eof
    /\ reader_eof' = TRUE
    /\ pc' = "commit"
    /\ UNCHANGED <<args, error, exit, config, db, taken, decoded, dropped,
                   attempts, failed, last>>

\* A variant of CommitExit that returns an error when the commit failed.
CommitExit_escalate(ok) ==
    IF ok THEN "success" ELSE "failure"

\* if let Err(err) = tx.commit() { println!(..) }  Ok(())
CommitExit(ok) ==
    "success"

\* tx.commit(): on success the rows of the transaction are in the table, on
\* failure the transaction is dropped and rolls back.
Commit ==
    /\ pc = "commit"
    /\ \E ok \in BOOLEAN :
        /\ commit_attempts' = commit_attempts + 1
        /\ tx' = IF ok THEN "committed" ELSE "rolled_back"
        /\ committed' = IF ok THEN tx_rows ELSE 0
        /\ pc' = "exited"
        /\ exit' = CommitExit(ok)
        /\ error' = IF ok THEN error ELSE "commit_logged"
    /\ UNCHANGED <<args, config, store, tx_opens, tx_rows, stream>>

Next ==
    \/ OpenFile
    \/ ParseBeforeDate
    \/ ParseSinceDate
    \/ ParseNearLocation
    \/ ParseBuffer
    \/ ParseCommonNameRegex
    \/ ParseScientificNameRegex
    \/ ParseLimit
    \/ OpenConnection
    \/ InitializeDatabase
    \/ OpenTransaction
    \/ PullRow
    \/ TakeExhausted
    \/ ReaderExhausted
    \/ Commit

Spec == Init /\ [][Next]_vars

\* ------------------------------------------------------------------ claims

\* The run is in the pipeline, at the commit, or past the commit.
Running == pc \in {"iter", "commit"} \/ (pc = "exited" /\ commit_attempts = 1)

\* The rows pulled so far that were I/O or decompression errors.
IoErrors == taken - decoded - dropped

\* The date a --before-date / --since-date value denotes.
DateOf(option) == ParseDate(Unwrap(option)).date

\* The buffer the command line configures, in metres.
ConfiguredBuffer ==
    IF IsSome(args.buffer) THEN ParseNumber(Unwrap(args.buffer)).value
    ELSE DefaultBuffer

\* Every clause of the filter configuration holds of the record; an absent
\* clause holds, and a date clause holds of a date that does not parse.
AllClausesHold(rec) ==
    LET d == ParseDate(rec.obs_date) IN
    /\ (IsSome(args.before) /\ d.ok) => d.date <= DateOf(args.before)
    /\ (IsSome(args.since) /\ d.ok) => d.date >= DateOf(args.since)
    /\ IsSome(near) =>
         Abs(rec.latitude - Unwrap(near).y) * MetresPerDegree < ConfiguredBuffer
    /\ IsSome(args.common_name_regex) =>
         IsMatch(Unwrap(args.common_name_regex), rec.common_name)
    /\ IsSome(args.scientific_name_regex) =>
         IsMatch(Unwrap(args.scientific_name_regex), rec.scientific_name)

\* C1: a decoded record pulled by the pipeline is handed to insert_record
\* exactly when every configured clause holds of it (date <= before-date,
\* date >= since-date, distance to the near point < buffer, both patterns
\* match); absent clauses and unparseable dates pass.
C1_FilterExact ==
    last.item.kind = "ok" => (last.attempted <=> AllClausesHold(last.item.rec))

\* C1 witness: with --since-date set, of two decoded rows the one dated
\* earlier was excluded and the one whose date does not parse was inserted.
C1_Witness ==
    /\ IsSome(args.since)
    /\ decoded = 2
    /\ attempts = 1
    /\ last.item.kind = "ok"
    /\ ~ParseDate(last.item.rec.obs_date).ok
    /\ last.attempted

\* C2 (as amended): take(limit) counts the rows the reader yields, decoded
\* or not: never more than `limit` rows are pulled, every row that fails to
\* decode is one of them, only decoded rows among them are evaluated and
\* inserted, and the iteration ends only when `limit` rows were pulled or
\* the reader ran out.
C2_LimitCountsRows ==
    IsSome(args.limit) =>
        /\ taken <= limit
        /\ decoded + dropped <= taken
        /\ attempts <= decoded
        /\ (pc = "commit" \/ commit_attempts = 1) => (taken = limit \/ reader_eof)

\* C2 witness: --limit 1, the one row pulled failed to decode, and the run
\* ended without asking the reader for another row.
C2_Witness ==
    /\ IsSome(args.limit)
    /\ limit = 1
    /\ taken = 1
    /\ dropped = 1
    /\ decoded = 0
    /\ ~reader_eof
    /\ pc = "exited"
    /\ exit = "success"

\* C2 (original statement): with --limit N a row that fails to decode does
\* not consume the limit, so the rows counted against it are the decoded ones.
C2_DecodeFailureKeepsLimit ==
    [][(IsSome(args.limit) /\ dropped' = dropped + 1) => taken' = taken]_vars

\* C3 (the claim): when both dates parse, the run ends with the
\* bounds-reversed error exactly when since-date is later than before-date.
C3_RejectedIffSinceLater ==
    ( /\ IsSome(args.before) /\ ParseDate(Unwrap(args.before)).ok
      /\ IsSome(args.since) /\ ParseDate(Unwrap(args.since)).ok
      /\ pc \notin {"open_file", "before_date", "since_date"}
      /\ error # "open" )
    => ((error = "bounds") <=> (DateOf(args.since) > DateOf(args.before)))

\* The text encodes exactly one point geometry.
EncodesOnePoint(wkt) ==
    /\ wkt.valid
    /\ Len(wkt.items) = 1
    /\ wkt.items[1].type = "POINT"
    /\ wkt.items[1].coords # <<>>

\* C4 (the claim): a --near-location value that does not encode exactly one
\* point ends the run with an error before any row is read; the run never
\* goes on past the near-location statement.
C4_NonPointRejected ==
    ( /\ IsSome(args.near)
      /\ ~EncodesOnePoint(Unwrap(args.near))
      /\ pc \notin {"open_file", "before_date", "since_date", "near_location"} )
    => (pc = "exited" /\ exit = "failure" /\ taken = 0)

\* C5: after an insert failure the transaction stays open until the commit,
\* the run neither panics nor returns an error, no record is attempted
\* twice, a later record is attempted exactly when it survives the filter,
\* the commit is attempted, and after a successful commit the table holds
\* the attempted rows minus the failed ones.
C5_InsertFailureSkipped ==
    failed > 0 =>
        /\ pc \in {"iter", "commit"} => tx = "open"
        /\ exit \in {"running", "success"}
        /\ attempts <= decoded
        /\ pc = "exited" => commit_attempts = 1
        /\ (pc = "exited" /\ tx = "committed") => committed = attempts - failed
        /\ last.item.kind = "ok" =>
             (last.attempted <=> AllClausesHold(last.item.rec))

\* C5 witness: the first of two surviving records failed to insert, the
\* second was inserted, the commit succeeded and one row is in the table.
C5_Witness ==
    /\ attempts = 2
    /\ failed = 1
    /\ last.attempted
    /\ last.insert_ok
    /\ tx = "committed"
    /\ committed = 1
    /\ exit = "success"

\* C6: a row that fails to decode is never inserted and does not end the
\* run: the pipeline goes on, a later decoded row is filtered and inserted
\* as any other, the commit is attempted and the run exits successfully.
C6_DecodeFailureDropped ==
    /\ last.item.kind = "decode_err" => ~last.attempted
    /\ attempts + dropped <= taken
    /\ dropped > 0 =>
        /\ Running
        /\ exit \in {"running", "success"}
        /\ pc = "exited" => exit = "success"
        /\ last.item.kind = "ok" =>
             (last.attempted <=> AllClausesHold(last.item.rec))

\* C6 witness: a row failed to decode, the next row was decoded and
\* inserted, and the run exited successfully.
C6_Witness ==
    /\ dropped = 1
    /\ taken = 2
    /\ last.item.kind = "ok"
    /\ last.attempted
    /\ last.insert_ok
    /\ pc = "exited"
    /\ exit = "success"

\* C7 (the claim): an I/O or decompression error, at the opening of the
\* archive or in the middle of the rows, ends the run at once with a
\* non-zero status, and no commit follows it.
C7_IoErrorFatal ==
    /\ error = "open" => (pc = "exited" /\ exit = "failure")
    /\ IoErrors > 0 =>
        (pc = "exited" /\ exit = "failure" /\ commit_attempts = 0)

\* In every state: at most one transaction and one commit, the transaction
\* only on an initialized schema, inserts only with a transaction, the
\* commit only after the stream ended, and a failed schema initialization
\* ends the run with no transaction and no insert.
C8_PhaseInv ==
    /\ tx_opens <= 1
    /\ commit_attempts <= 1
    /\ tx_opens = 1 => store = "ready"
    /\ attempts > 0 => tx_opens = 1
    /\ commit_attempts = 1 => (pc = "exited" /\ (taken = limit \/ reader_eof))
    /\ (pc = "exited" /\ tx_opens = 1) => commit_attempts = 1
    /\ (store \in {"dropped", "created"} \/ error = "init_db") =>
         (pc = "exited" /\ exit = "panic" /\ tx_opens = 0 /\ attempts = 0)

\* In every step: an insert happens inside the open transaction and before
\* the commit, the transaction is opened once and before any insert, and
\* the commit is attempted once, after the stream ended.
C8_PhaseStep ==
    /\ attempts' > attempts =>
         (tx = "open" /\ tx' = "open" /\ commit_attempts' = 0)
    /\ tx_opens' > tx_opens =>
         (store = "ready" /\ tx_opens = 0 /\ attempts = 0)
    /\ commit_attempts' > commit_attempts =>
         (tx = "open" /\ commit_attempts = 0 /\ attempts' = attempts
          /\ (taken = limit \/ reader_eof))
    /\ commit_attempts = 1 => attempts' = attempts

\* C8: the phases of a run that reaches the loader occur in order: schema
\* initialization, one transaction, the inserts inside it, one commit after
\* the stream ended; a failed schema initialization is fatal.
C8_PhaseOrder ==
    []C8_PhaseInv /\ [][C8_PhaseStep]_vars

\* C8 witness: a run that initialized the schema, opened its transaction,
\* inserted two rows in it and then attempted its commit.
C8_Witness ==
    /\ store = "ready"
    /\ tx_opens = 1
    /\ attempts = 2
    /\ commit_attempts = 1
    /\ pc = "exited"

\* C9: once the commit was attempted the run exits successfully whether or
\* not it succeeded; after a failed commit no row of the run is in the table.
C9_CommitFailureLogged ==
    commit_attempts = 1 =>
        /\ pc = "exited"
        /\ exit = "success"
        /\ tx = "rolled_back" => committed = 0
        /\ tx \in {"committed", "rolled_back"}

\* C9 witness: rows were inserted, the commit failed, and the run exited
\* successfully with none of them in the table.
C9_Witness ==
    /\ tx = "rolled_back"
    /\ tx_rows > 0
    /\ committed = 0
    /\ exit = "success"

ConfigErrors ==
    {"open", "before_date", "since_date", "bounds", "near_wkt", "near_geometry",
     "near_multiple", "buffer", "common_name_regex", "scientific_name_regex",
     "limit"}

\* C10: a run that ends with a configuration error or with a failure to
\* open the archive returns an error with the destination untouched: the
\* table is neither dropped nor recreated, no transaction is opened, no row
\* is read and none inserted.
C10_ConfigErrorLeavesStore ==
    /\ error \in ConfigErrors => exit = "failure"
    /\ exit = "failure" =>
        /\ error \in ConfigErrors
        /\ pc = "exited"
        /\ store = "untouched"
        /\ tx = "none"
        /\ tx_opens = 0
        /\ taken = 0
        /\ attempts = 0
        /\ commit_attempts = 0

\* C10 witness: every option before --limit compiled, --limit is malformed
\* and the run returned the error.
C10_Witness ==
    /\ error = "limit"
    /\ exit = "failure"
    /\ IsSome(args.before)
    /\ IsSome(near)

====
